---- MODULE Spec2Model ----
(***************************************************************************)
(* Verification model of the shared-components repository:                 *)
(*   - useUndoRedo, the undo/redo history hook  (src/unnamed/part_010)     *)
(*   - flattenTree and the tree utilities (src/src/app/components/tree)    *)
(*                                                                         *)
(* The hook keeps three React state cells (past, present, future).  A call *)
(* of commit/sync/undo/redo/reset does not change the cells: it enqueues   *)
(* updates, and the next render applies the queues.  The callbacks read    *)
(* `present` from the closure of the last render.  A functional updater    *)
(* handed to a state setter is run by React either at once (when the       *)
(* component has no pending update) or during the next render; which of    *)
(* the two happens is not fixed by the hook, so the model leaves it open.  *)
(***************************************************************************)
EXTENDS Integers, Sequences, FiniteSets, TLC

\* ---------------------------------------------------------------- bounds
MaxVal == 2
MaxHist == 2
MaxBatch == 2

Vals == 1..MaxVal

\* `undefined`, and a defined result v, as returned by undo()/redo()
Undefined == <<>>
Some(v) == <<v>>

VARIABLES
    past, present, future,      \* the three useState cells, as of the last render
    canUndo, canRedo,           \* the derived flags returned by the last render
    qPast, qPresent, qFuture,   \* updates enqueued on each cell since the last render
    calls,                      \* the hook operations called since the last render
    prev                        \* the last render's batch and the cells before it, when the
                                \* batch was a single call (NoBatch otherwise)

hvars == <<past, present, future, canUndo, canRedo, qPast, qPresent, qFuture,
           calls, prev>>

Front(s) == SubSeq(s, 1, Len(s) - 1)
Rest(s) == SubSeq(s, 2, Len(s))

Upd(kind, arg) == [k |-> kind, a |-> arg]
Call(o, arg, r) == [op |-> o, arg |-> arg, ret |-> r]
Cells == [past |-> past, present |-> present, future |-> future]

NoCells == [past |-> <<>>, present |-> 0, future |-> <<>>]
NoBatch == [pre |-> NoCells, from |-> NoCells, calls |-> <<>>]

\* what `prev` keeps of a batch: a single call, the cells it started from
\* (not for reset, which ignores them) and, for a redo that directly follows
\* a single undo, the cells that undo started from
Remember(cs) ==
    IF Len(cs) # 1 THEN NoBatch
    ELSE [pre |-> IF cs[1].op = "reset" THEN NoCells ELSE Cells,
          from |-> IF cs[1].op = "redo" /\ prev.calls # <<>> /\ prev.calls[1].op = "undo"
                   THEN prev.pre ELSE NoCells,
          calls |-> cs]

\* no update is pending on the component: React may run an updater at once
NoPending == qPast = <<>> /\ qPresent = <<>> /\ qFuture = <<>>

CommitCount(cs) == Cardinality({i \in 1..Len(cs) : cs[i].op = "commit"})

\* `prev` is kept while the batch that follows it is a single call
Called == prev' = IF calls = <<>> THEN prev ELSE NoBatch

\* ------------------------------------------------------------ operations
\* faulty variant of commit: the future is not cleared
commit_KeepsFuture(next) ==
    /\ Len(calls) < MaxBatch
    /\ Len(past) + Len(future) + CommitCount(calls) < MaxHist
    /\ qPast' = Append(qPast, Upd("app", <<present>>))
    /\ qPresent' = Append(qPresent, next)
    /\ calls' = Append(calls, Call("commit", <<next>>, Undefined))
    /\ Called
    /\ UNCHANGED <<past, present, future, canUndo, canRedo, qFuture>>

\* commit: setPast(p => [...p, present]); setPresent(next); setFuture([])
commit(next) ==
    /\ Len(calls) < MaxBatch
    /\ Len(past) + Len(future) + CommitCount(calls) < MaxHist
    /\ qPast' = Append(qPast, Upd("app", <<present>>))
    /\ qPresent' = Append(qPresent, next)
    /\ qFuture' = Append(qFuture, Upd("set", <<>>))
    /\ calls' = Append(calls, Call("commit", <<next>>, Undefined))
    /\ Called
    /\ UNCHANGED <<past, present, future, canUndo, canRedo>>

\* faulty variant of sync: the pending redo states are dropped
sync_ClearsFuture(next) ==
    /\ Len(calls) < MaxBatch
    /\ qPresent' = Append(qPresent, next)
    /\ qFuture' = Append(qFuture, Upd("set", <<>>))
    /\ calls' = Append(calls, Call("sync", <<next>>, Undefined))
    /\ Called
    /\ UNCHANGED <<past, present, future, canUndo, canRedo, qPast>>

\* sync: setPresent(next)
sync(next) ==
    /\ Len(calls) < MaxBatch
    /\ qPresent' = Append(qPresent, next)
    /\ calls' = Append(calls, Call("sync", <<next>>, Undefined))
    /\ Called
    /\ UNCHANGED <<past, present, future, canUndo, canRedo, qPast, qFuture>>

\* faulty variant of reset: the past is kept
reset_KeepsPast(val) ==
    /\ Len(calls) < MaxBatch
    /\ qPresent' = Append(qPresent, val)
    /\ qFuture' = Append(qFuture, Upd("set", <<>>))
    /\ calls' = Append(calls, Call("reset", <<val>>, Some(val)))
    /\ Called
    /\ UNCHANGED <<past, present, future, canUndo, canRedo, qPast>>

\* reset: setPast([]); setPresent(val); setFuture([]); return val
reset(val) ==
    /\ Len(calls) < MaxBatch
    /\ qPast' = Append(qPast, Upd("set", <<>>))
    /\ qPresent' = Append(qPresent, val)
    /\ qFuture' = Append(qFuture, Upd("set", <<>>))
    /\ calls' = Append(calls, Call("reset", <<val>>, Some(val)))
    /\ Called
    /\ UNCHANGED <<past, present, future, canUndo, canRedo>>

\* The updater undo() hands to setPast, run on p with `present` = c in its
\* closure.  What it returns, the setPresent / setFuture calls it makes, and
\* what it leaves in `result`.
UndoUpdater(p) == IF Len(p) = 0 THEN p ELSE Front(p)

\* faulty variant of UndoNested: the guard on an empty past is missing
UndoNested_NoGuard(p, c) ==
    [toPresent |-> IF Len(p) = 0 THEN <<>> ELSE <<p[Len(p)]>>,
     toFuture |-> <<Upd("pre", <<c>>)>>]

UndoNested(p, c) ==
    IF Len(p) = 0
    THEN [toPresent |-> <<>>, toFuture |-> <<>>]
    ELSE [toPresent |-> <<p[Len(p)]>>, toFuture |-> <<Upd("pre", <<c>>)>>]

UndoResult(p) == IF Len(p) = 0 THEN Undefined ELSE Some(p[Len(p)])

\* The updater redo() hands to setFuture, run on f with `present` = c.
RedoUpdater(f) == IF Len(f) = 0 THEN f ELSE Rest(f)

\* faulty variant of RedoNested: the redone value, not the old present, goes to past
RedoNested_PushesNext(f, c) ==
    IF Len(f) = 0
    THEN [toPresent |-> <<>>, toPast |-> <<>>]
    ELSE [toPresent |-> <<f[1]>>, toPast |-> <<Upd("app", <<f[1]>>)>>]

RedoNested(f, c) ==
    IF Len(f) = 0
    THEN [toPresent |-> <<>>, toPast |-> <<>>]
    ELSE [toPresent |-> <<f[1]>>, toPast |-> <<Upd("app", <<c>>)>>]

RedoResult(f) == IF Len(f) = 0 THEN Undefined ELSE Some(f[1])

\* undo: `result` is assigned inside the setPast updater, so undo() returns a
\* value only when React runs the updater before undo() returns (eager).
\* Otherwise the updater is queued and runs during the next render.
undo ==
    /\ Len(calls) < MaxBatch
    /\ \E eager \in BOOLEAN :
        /\ eager => NoPending
        /\ IF eager
           THEN LET n == UndoNested(past, present)
                IN /\ qFuture' = qFuture \o n.toFuture
                   /\ qPresent' = qPresent \o n.toPresent
                   /\ qPast' = IF Len(past) = 0 THEN qPast
                               ELSE Append(qPast, Upd("set", UndoUpdater(past)))
                   /\ calls' = Append(calls, Call("undo", <<>>, UndoResult(past)))
           ELSE /\ qPast' = Append(qPast, Upd("undo", <<present>>))
                /\ calls' = Append(calls, Call("undo", <<>>, Undefined))
                /\ UNCHANGED <<qPresent, qFuture>>
    /\ Called
    /\ UNCHANGED <<past, present, future, canUndo, canRedo>>

\* redo: symmetric, the updater is handed to setFuture
redo ==
    /\ Len(calls) < MaxBatch
    /\ \E eager \in BOOLEAN :
        /\ eager => NoPending
        /\ IF eager
           THEN LET n == RedoNested(future, present)
                IN /\ qPast' = qPast \o n.toPast
                   /\ qPresent' = qPresent \o n.toPresent
                   /\ qFuture' = IF Len(future) = 0 THEN qFuture
                                 ELSE Append(qFuture, Upd("set", RedoUpdater(future)))
                   /\ calls' = Append(calls, Call("redo", <<>>, RedoResult(future)))
           ELSE /\ qFuture' = Append(qFuture, Upd("redo", <<present>>))
                /\ calls' = Append(calls, Call("redo", <<>>, Undefined))
                /\ UNCHANGED <<qPast, qPresent>>
    /\ Called
    /\ UNCHANGED <<past, present, future, canUndo, canRedo>>

\* ---------------------------------------------------------------- render
\* One queued update of `past` / `future` applied to the cell's value
ApplyPast(p, u) ==
    CASE u.k = "app" -> Append(p, u.a[1])
      [] u.k = "set" -> u.a
      [] u.k = "undo" -> UndoUpdater(p)

ApplyFuture(f, u) ==
    CASE u.k = "pre" -> <<u.a[1]>> \o f
      [] u.k = "set" -> u.a
      [] u.k = "redo" -> RedoUpdater(f)

NoNested == [toPresent |-> <<>>, toFuture |-> <<>>, toPast |-> <<>>]

\* The queue of `past` applied to p.  An undo updater that runs here calls
\* setFuture and setPresent while rendering: these land behind whatever is
\* already queued on those cells.
RECURSIVE RunPast(_, _)
RunPast(p, q) ==
    IF q = <<>>
    THEN [s |-> p, toPresent |-> <<>>, toFuture |-> <<>>]
    ELSE LET u == Head(q)
             n == IF u.k = "undo" THEN UndoNested(p, u.a[1]) ELSE NoNested
             r == RunPast(ApplyPast(p, u), Tail(q))
         IN [s |-> r.s,
             toPresent |-> n.toPresent \o r.toPresent,
             toFuture |-> n.toFuture \o r.toFuture]

\* The queue of `future` applied to f; a redo updater that runs here calls
\* setPast and setPresent while rendering.
RECURSIVE RunFuture(_, _)
RunFuture(f, q) ==
    IF q = <<>>
    THEN [s |-> f, toPresent |-> <<>>, toPast |-> <<>>]
    ELSE LET u == Head(q)
             n == IF u.k = "redo" THEN RedoNested(f, u.a[1]) ELSE NoNested
             r == RunFuture(ApplyFuture(f, u), Tail(q))
         IN [s |-> r.s,
             toPresent |-> n.toPresent \o r.toPresent,
             toPast |-> n.toPast \o r.toPast]

\* canUndo / canRedo as the hook body derives them (lines 95-96)
\* faulty variant of CanUndoOf: off by one
CanUndoOf_OffByOne(p) == Len(p) > 1

CanUndoOf(p) == Len(p) > 0
CanRedoOf(f) == Len(f) > 0

\* One render of the component that owns the hook: the three queues are
\* applied in hook order, updates made while rendering included.
Render ==
    /\ calls # <<>>
    /\ LET r1 == RunPast(past, qPast)
           r2 == RunFuture(future, qFuture \o r1.toFuture)
           r3 == RunPast(r1.s, r2.toPast)
           pq == qPresent \o r1.toPresent \o r2.toPresent
       IN /\ past' = r3.s
          /\ future' = r2.s
          /\ present' = IF pq = <<>> THEN present ELSE pq[Len(pq)]
          /\ canUndo' = CanUndoOf(r3.s)
          /\ canRedo' = CanRedoOf(r2.s)
    /\ qPast' = <<>> /\ qPresent' = <<>> /\ qFuture' = <<>>
    /\ prev' = Remember(calls)
    /\ calls' = <<>>

\* useUndoRedo(initial): the state after the first render
HInit ==
    /\ past = <<>> /\ future = <<>>
    /\ present \in Vals
    /\ canUndo = CanUndoOf(<<>>) /\ canRedo = CanRedoOf(<<>>)
    /\ qPast = <<>> /\ qPresent = <<>> /\ qFuture = <<>>
    /\ calls = <<>> /\ prev = NoBatch

\* ============================================================ tree utils
\* A forest lives in a heap: node objects (objs) and arrays of node
\* references (arrs).  `root` is the address of the top-level array, a
\* node's `children` is the address of its child array or NoChildren.
MaxNodes == 4

NoChildren == 0
NoParent == 0

VARIABLES
    objs, arrs, root,       \* the heap and the forest the caller holds
    collapsedItems,         \* the collapsed set last handed to flattenTree
    flat,                   \* the last result of flattenTree
    tpc,                    \* "idle" before the first call, else the last call made
    call,                   \* the last removeNodeById / moveNode call: arguments, input, outcome
    ncalls,                 \* how many such calls were made
    look                    \* the last lookup: the id, findNodeById's and getNodePath's results

tvars == <<objs, arrs, root, collapsedItems, flat, tpc, call, ncalls, look>>

\* ids are unique over the forest and are not the heap addresses
NodeId(k) == MaxNodes + k

\* flattenTree(items, parentId, depth, collapsedItems): items.reduce from
\* index i on (FlattenFrom), each item followed by its children's flattening
\* when it has children and is not collapsed.
RECURSIVE flattenTree(_, _, _, _), FlattenFrom(_, _, _, _, _)

\* faulty variant of FlattenFrom: a collapsed node is hidden together with its children
FlattenFrom_HidesCollapsed(items, i, parentId, depth, collapsed) ==
    IF i > Len(arrs[items])
    THEN <<>>
    ELSE LET item == objs[arrs[items][i]]
             flattenedItem == [id |-> item.id, children |-> item.children,
                               parentId |-> parentId, depth |-> depth,
                               index |-> i - 1,
                               collapsed |-> item.id \in collapsed]
             below == IF /\ item.children # NoChildren
                         /\ Len(arrs[item.children]) > 0
                      THEN flattenTree(item.children, item.id, depth + 1, collapsed)
                      ELSE <<>>
         IN (IF item.id \in collapsed THEN <<>> ELSE <<flattenedItem>> \o below)
            \o FlattenFrom(items, i + 1, parentId, depth, collapsed)

\* faulty variant of FlattenFrom: the depth is not increased for the children
FlattenFrom_FlatDepth(items, i, parentId, depth, collapsed) ==
    IF i > Len(arrs[items])
    THEN <<>>
    ELSE LET item == objs[arrs[items][i]]
             flattenedItem == [id |-> item.id, children |-> item.children,
                               parentId |-> parentId, depth |-> depth,
                               index |-> i - 1,
                               collapsed |-> item.id \in collapsed]
             below == IF /\ item.children # NoChildren
                         /\ Len(arrs[item.children]) > 0
                         /\ item.id \notin collapsed
                      THEN flattenTree(item.children, item.id, depth, collapsed)
                      ELSE <<>>
         IN <<flattenedItem>> \o below \o FlattenFrom(items, i + 1, parentId, depth, collapsed)

FlattenFrom(items, i, parentId, depth, collapsed) ==
    IF i > Len(arrs[items])
    THEN <<>>
    ELSE LET item == objs[arrs[items][i]]
             flattenedItem == [id |-> item.id, children |-> item.children,
                               parentId |-> parentId, depth |-> depth,
                               index |-> i - 1,
                               collapsed |-> item.id \in collapsed]
             below == IF /\ item.children # NoChildren
                         /\ Len(arrs[item.children]) > 0
                         /\ item.id \notin collapsed
                      THEN flattenTree(item.children, item.id, depth + 1, collapsed)
                      ELSE <<>>
         IN <<flattenedItem>> \o below \o FlattenFrom(items, i + 1, parentId, depth, collapsed)

flattenTree(items, parentId, depth, collapsed) ==
    FlattenFrom(items, 1, parentId, depth, collapsed)

\* the nodes of the forest under array a
RECURSIVE NodesUnder(_)
NodesUnder(a) ==
    UNION {{arrs[a][i]} \cup (IF objs[arrs[a][i]].children = NoChildren THEN {}
                               ELSE NodesUnder(objs[arrs[a][i]].children))
           : i \in 1..Len(arrs[a])}

ForestNodes == NodesUnder(root)
ForestIds == {objs[n].id : n \in ForestNodes}

\* The caller flattens the forest it holds (sortable-tree.tsx: flattenTree(data, null, 0, set))
DoFlatten ==
    /\ \E c \in SUBSET ForestIds :
        /\ collapsedItems' = c
        /\ flat' = flattenTree(root, NoParent, 0, c)
    /\ tpc' = "flatten"
    /\ UNCHANGED <<objs, arrs, root, call, ncalls, look>>

\* The forests a caller can hold: n nodes, node k a child of an earlier node
\* parent[k] (0: top level), siblings in address order; a leaf has either no
\* `children` field or an empty array.  Node k's child array has address k,
\* the top-level array address n + 1.
ForestsUpTo(m) ==
    UNION {
      UNION {
        { [n |-> n, parent |-> par, bare |-> b] :
            b \in SUBSET {k \in 1..n : \A j \in 1..n : par[j] # k} }
        : par \in {f \in [1..n -> 0..n] : \A k \in 1..n : f[k] < k} }
      : n \in 0..m }

Forests == ForestsUpTo(MaxNodes)

ChildrenOf(F, k) ==
    LET RECURSIVE from(_)
        from(j) == IF j > F.n THEN <<>>
                   ELSE (IF F.parent[j] = k THEN <<j>> ELSE <<>>) \o from(j + 1)
    IN from(1)

\* no call made yet
NoCall == [op |-> "none", id |-> 0, dir |-> "none", threw |-> FALSE, moved |-> FALSE,
           input |-> 0, before |-> <<>>]

\* the caller holds forest F, laid out in a fresh heap
NoLook == [id |-> 0, found |-> 0, path |-> <<>>]

Holds(F) ==
    /\ objs = [k \in 1..F.n |->
                  [id |-> NodeId(k),
                   children |-> IF k \in F.bare THEN NoChildren ELSE k]]
    /\ arrs = [a \in ((1..F.n) \ F.bare) \cup {F.n + 1} |->
                  IF a = F.n + 1 THEN ChildrenOf(F, 0) ELSE ChildrenOf(F, a)]
    /\ root = F.n + 1
    /\ collapsedItems = {}
    /\ flat = <<>>
    /\ tpc = "idle"
    /\ call = NoCall
    /\ ncalls = 0
    /\ look = NoLook

TInit == \E F \in Forests : Holds(F)

\* -------------------------------------------- removeNodeById / moveNode
\* These functions allocate arrays and objects and, in places, write to the
\* arrays and objects they were given; they are modelled on an explicit heap
\* h = [objs, arrs] that every step takes and returns.
MaxMoveNodes == 3
MaxCalls == 1

NoList == 0
NotFound == 0

Heap == [objs |-> objs, arrs |-> arrs]

MaxOf(S) == IF S = {} THEN 0 ELSE CHOOSE x \in S : \A y \in S : y <= x
NewArr(h) == MaxOf(DOMAIN h.arrs) + 1
NewObj(h) == MaxOf(DOMAIN h.objs) + 1
PutArr(h, a, s) ==
    [h EXCEPT !.arrs = [x \in DOMAIN h.arrs \cup {a} |-> IF x = a THEN s ELSE h.arrs[x]]]
PutObj(h, o, rec) ==
    [h EXCEPT !.objs = [x \in DOMAIN h.objs \cup {o} |-> IF x = o THEN rec ELSE h.objs[x]]]

\* Array.prototype.splice(i, 1) and splice(i, 0, x), i counted from 0
SpliceOut(s, i) ==
    IF i < Len(s) THEN SubSeq(s, 1, i) \o SubSeq(s, i + 2, Len(s)) ELSE s
SpliceIn(s, i, x) ==
    LET k == IF i > Len(s) THEN Len(s) ELSE i
    IN SubSeq(s, 1, k) \o <<x>> \o SubSeq(s, k + 1, Len(s))

\* the forest under array a as a value: ids, whether `children` is present,
\* and the children in order
RECURSIVE ValueOf(_, _)
ValueOf(h, a) ==
    [i \in 1..Len(h.arrs[a]) |->
        LET o == h.objs[h.arrs[a][i]]
        IN [id |-> o.id,
            has |-> o.children # NoChildren,
            kids |-> IF o.children = NoChildren THEN <<>> ELSE ValueOf(h, o.children)]]

\* findNodeById(nodes, id): the node object found, or NotFound (null)
RECURSIVE findNodeById(_, _, _), FindLoop(_, _, _, _)
FindLoop(h, nodes, i, id) ==
    IF i > Len(h.arrs[nodes])
    THEN NotFound
    ELSE LET n == h.arrs[nodes][i]
             node == h.objs[n]
             found == IF node.children # NoChildren
                      THEN findNodeById(h, node.children, id)
                      ELSE NotFound
         IN IF node.id = id THEN n
            ELSE IF found # NotFound THEN found
            ELSE FindLoop(h, nodes, i + 1, id)

findNodeById(h, nodes, id) == FindLoop(h, nodes, 1, id)

RECURSIVE removeNodeById(_, _, _), RemoveLoop(_, _, _, _, _)

\* faulty variant of RemoveLoop: the kept nodes are copied but their children
\* are not searched
RECURSIVE RemoveLoop_TopLevelOnly(_, _, _, _, _)
RemoveLoop_TopLevelOnly(h, nodes, i, id, acc) ==
    IF i > Len(h.arrs[nodes])
    THEN [h |-> h, nodes |-> acc]
    ELSE LET n == h.arrs[nodes][i]
             node == h.objs[n]
         IN IF node.id = id
            THEN RemoveLoop_TopLevelOnly(h, nodes, i + 1, id, acc)
            ELSE LET updatedNode == NewObj(h)
                     h1 == PutObj(h, updatedNode, node)
                     h3 == PutArr(h1, acc, Append(h1.arrs[acc], updatedNode))
                 IN RemoveLoop_TopLevelOnly(h3, nodes, i + 1, id, acc)

\* faulty variant of RemoveLoop: a node without children is pushed as it is,
\* not copied
RemoveLoop_SharesLeaves(h, nodes, i, id, acc) ==
    IF i > Len(h.arrs[nodes])
    THEN [h |-> h, nodes |-> acc]
    ELSE LET n == h.arrs[nodes][i]
             node == h.objs[n]
         IN IF node.id = id
            THEN RemoveLoop(h, nodes, i + 1, id, acc)
            ELSE IF node.children = NoChildren
            THEN RemoveLoop(PutArr(h, acc, Append(h.arrs[acc], n)), nodes, i + 1, id, acc)
            ELSE LET updatedNode == NewObj(h)
                     h1 == PutObj(h, updatedNode, node)
                     r == removeNodeById(h1, node.children, id)
                     h2 == PutObj(r.h, updatedNode, [node EXCEPT !.children = r.nodes])
                     h3 == PutArr(h2, acc, Append(h2.arrs[acc], updatedNode))
                 IN RemoveLoop(h3, nodes, i + 1, id, acc)

\* removeNodeById(nodes, id): nodes.reduce into a new array acc; every node
\* kept is copied ({ ...node }) and gets the result for its children
RemoveLoop(h, nodes, i, id, acc) ==
    IF i > Len(h.arrs[nodes])
    THEN [h |-> h, nodes |-> acc]
    ELSE LET n == h.arrs[nodes][i]
             node == h.objs[n]
         IN IF node.id = id
            THEN RemoveLoop(h, nodes, i + 1, id, acc)
            ELSE LET updatedNode == NewObj(h)
                     h1 == PutObj(h, updatedNode, node)
                     r == IF node.children # NoChildren
                          THEN removeNodeById(h1, node.children, id)
                          ELSE [h |-> h1, nodes |-> NoChildren]
                     h2 == PutObj(r.h, updatedNode, [node EXCEPT !.children = r.nodes])
                     h3 == PutArr(h2, acc, Append(h2.arrs[acc], updatedNode))
                 IN RemoveLoop(h3, nodes, i + 1, id, acc)

removeNodeById(h, nodes, id) ==
    LET acc == NewArr(h)
    IN RemoveLoop(PutArr(h, acc, <<>>), nodes, 1, id, acc)

\* moveNodeInArray(array, fromIndex, toIndex): a copy with one item moved
moveNodeInArray(h, array, fromIndex, toIndex) ==
    LET result == NewArr(h)
        movedItem == h.arrs[array][fromIndex + 1]
    IN [h |-> PutArr(h, result,
                     SpliceIn(SpliceOut(h.arrs[array], fromIndex), toIndex, movedItem)),
        arr |-> result]

\* what findAndMoveNode hands back: { nodes, moved }, or an exception
Ret(h, nodes, moved) == [h |-> h, nodes |-> nodes, moved |-> moved, threw |-> FALSE]
Thrown(h) == [h |-> h, nodes |-> NoList, moved |-> FALSE, threw |-> TRUE]

\* faulty variant of FindParentIndex: the parent itself, not its children
\* array, is compared with the sibling list
FindParentIndex_ComparesNode(h, parentList, nodeList) ==
    LET hits == {j \in 1..Len(h.arrs[parentList]) : h.arrs[parentList][j] = nodeList}
    IN IF hits = {} THEN -1 ELSE (CHOOSE j \in hits : \A k \in hits : j <= k) - 1

\* parentList.findIndex(p => p.children === nodeList), from 0, or -1
FindParentIndex(h, parentList, nodeList) ==
    LET hits == {j \in 1..Len(h.arrs[parentList]) :
                    h.objs[h.arrs[parentList][j]].children = nodeList}
    IN IF hits = {} THEN -1 ELSE (CHOOSE j \in hits : \A k \in hits : j <= k) - 1

\* faulty variant of AtNode: `down` also moves a node that is already last
AtNode_DownOffByOne(h, nodeList, parentList, i, direction) ==
    LET newNodes == NewArr(h)
        h1 == PutArr(h, newNodes, h.arrs[nodeList])
        n == h.arrs[nodeList][i + 1]
    IN CASE direction = "up" ->
              IF i > 0
              THEN LET r == moveNodeInArray(h1, newNodes, i, i - 1)
                   IN Ret(r.h, r.arr, TRUE)
              ELSE Ret(h1, newNodes, FALSE)
         [] direction = "down" ->
              IF i < Len(h1.arrs[newNodes])
              THEN LET r == moveNodeInArray(h1, newNodes, i, i + 1)
                   IN Ret(r.h, r.arr, TRUE)
              ELSE Ret(h1, newNodes, FALSE)
         [] direction = "indent" ->
              IF i > 0
              THEN LET prevNode == h1.arrs[newNodes][i]
                       fresh == NewArr(h1)
                       h2 == IF h1.objs[prevNode].children = NoChildren
                             THEN PutObj(PutArr(h1, fresh, <<>>), prevNode,
                                         [h1.objs[prevNode] EXCEPT !.children = fresh])
                             ELSE h1
                       kids == h2.objs[prevNode].children
                       h3 == PutArr(h2, kids, Append(h2.arrs[kids], n))
                       h4 == PutArr(h3, newNodes, SpliceOut(h3.arrs[newNodes], i))
                   IN Ret(h4, newNodes, TRUE)
              ELSE Ret(h1, newNodes, FALSE)
         [] direction = "outdent" ->
              IF parentList # NoList /\ FindParentIndex(h1, parentList, nodeList) # -1
              THEN LET parentIndex == FindParentIndex(h1, parentList, nodeList)
                       h2 == PutArr(h1, parentList,
                                    SpliceIn(h1.arrs[parentList], parentIndex + 1, n))
                       h3 == PutArr(h2, newNodes, SpliceOut(h2.arrs[newNodes], i))
                   IN Ret(h3, newNodes, TRUE)
              ELSE Ret(h1, newNodes, FALSE)

\* the node was found at nodeList[i] (lines 73-115)
AtNode(h, nodeList, parentList, i, direction) ==
    LET newNodes == NewArr(h)
        h1 == PutArr(h, newNodes, h.arrs[nodeList])
        n == h.arrs[nodeList][i + 1]
    IN CASE direction = "up" ->
              IF i > 0
              THEN LET r == moveNodeInArray(h1, newNodes, i, i - 1)
                   IN Ret(r.h, r.arr, TRUE)
              ELSE Ret(h1, newNodes, FALSE)
         [] direction = "down" ->
              IF i < Len(h1.arrs[newNodes]) - 1
              THEN LET r == moveNodeInArray(h1, newNodes, i, i + 1)
                   IN Ret(r.h, r.arr, TRUE)
              ELSE Ret(h1, newNodes, FALSE)
         [] direction = "indent" ->
              IF i > 0
              THEN LET prevNode == h1.arrs[newNodes][i]
                       fresh == NewArr(h1)
                       h2 == IF h1.objs[prevNode].children = NoChildren
                             THEN PutObj(PutArr(h1, fresh, <<>>), prevNode,
                                         [h1.objs[prevNode] EXCEPT !.children = fresh])
                             ELSE h1
                       kids == h2.objs[prevNode].children
                       h3 == PutArr(h2, kids, Append(h2.arrs[kids], n))
                       h4 == PutArr(h3, newNodes, SpliceOut(h3.arrs[newNodes], i))
                   IN Ret(h4, newNodes, TRUE)
              ELSE Ret(h1, newNodes, FALSE)
         [] direction = "outdent" ->
              IF parentList # NoList /\ FindParentIndex(h1, parentList, nodeList) # -1
              THEN LET parentIndex == FindParentIndex(h1, parentList, nodeList)
                       h2 == PutArr(h1, parentList,
                                    SpliceIn(h1.arrs[parentList], parentIndex + 1, n))
                       h3 == PutArr(h2, newNodes, SpliceOut(h2.arrs[newNodes], i))
                   IN Ret(h3, newNodes, TRUE)
              ELSE Ret(h1, newNodes, FALSE)

\* The node was moved inside node n's children (lines 119-124).  The return
\* value reads `newNodes`, which is declared in the block of line 73 and is
\* not in scope here: evaluating it raises a ReferenceError.
AncestorRebuild(h, nodeList, n, result) == Thrown(h)

\* findAndMoveNode(nodeList, parentList): the loop of line 70 from index i
RECURSIVE findAndMoveNode(_, _, _, _, _), MoveLoop(_, _, _, _, _, _)
MoveLoop(h, nodeList, parentList, i, nodeId, direction) ==
    IF ~(i < Len(h.arrs[nodeList]))
    THEN Ret(h, nodeList, FALSE)
    ELSE LET n == h.arrs[nodeList][i + 1]
             node == h.objs[n]
         IN IF node.id = nodeId
            THEN AtNode(h, nodeList, parentList, i, direction)
            ELSE IF node.children # NoChildren
            THEN LET result == findAndMoveNode(h, node.children, nodeList, nodeId, direction)
                 IN IF result.threw THEN result
                    ELSE IF result.moved THEN AncestorRebuild(result.h, nodeList, n, result)
                    ELSE MoveLoop(result.h, nodeList, parentList, i + 1, nodeId, direction)
            ELSE MoveLoop(h, nodeList, parentList, i + 1, nodeId, direction)

findAndMoveNode(h, nodeList, parentList, nodeId, direction) ==
    MoveLoop(h, nodeList, parentList, 0, nodeId, direction)

moveNode(h, nodes, nodeId, direction) ==
    findAndMoveNode(h, nodes, NoList, nodeId, direction)

Directions == {"up", "down", "indent", "outdent"}

\* an id no node of the forest carries
AbsentId == NodeId(0)

\* handleMove: newData = moveNode(data, nodeId, direction); onDataChange(newData).
\* When moveNode throws, the handler ends there and the caller keeps `data`.
DoMove ==
    /\ ncalls < MaxCalls
    /\ \E nodeId \in ForestIds \cup {AbsentId}, direction \in Directions :
        LET r == moveNode(Heap, root, nodeId, direction)
        IN /\ objs' = r.h.objs
           /\ arrs' = r.h.arrs
           /\ root' = IF r.threw THEN root ELSE r.nodes
           /\ call' = [op |-> "move", id |-> nodeId, dir |-> direction,
                       threw |-> r.threw, moved |-> r.moved,
                       input |-> root, before |-> ValueOf(Heap, root)]
    /\ tpc' = "move"
    /\ ncalls' = ncalls + 1
    /\ UNCHANGED <<collapsedItems, flat, look>>

\* handleRemove: newData = removeNodeById(data, nodeId); onDataChange(newData)
DoRemove ==
    /\ ncalls < MaxCalls
    /\ \E nodeId \in ForestIds \cup {AbsentId} :
        LET r == removeNodeById(Heap, root, nodeId)
        IN /\ objs' = r.h.objs
           /\ arrs' = r.h.arrs
           /\ root' = r.nodes
           /\ call' = [op |-> "remove", id |-> nodeId, dir |-> "none",
                       threw |-> FALSE, moved |-> FALSE,
                       input |-> root, before |-> ValueOf(Heap, root)]
    /\ tpc' = "remove"
    /\ ncalls' = ncalls + 1
    /\ UNCHANGED <<collapsedItems, flat, look>>

MInit == \E F \in ForestsUpTo(MaxMoveNodes) : Holds(F)

\* ---------------------------------------------------------- getNodePath
\* findPath returns the ids from the top level down to the node, or null
NoPath == <<>>

RECURSIVE findPath(_, _, _, _), PathLoop(_, _, _, _, _)

\* faulty variant of PathLoop: the children are searched with `path`, not
\* with `currentPath`
PathLoop_DropsAncestors(h, nodeList, i, path, nodeId) ==
    IF i > Len(h.arrs[nodeList])
    THEN NoPath
    ELSE LET node == h.objs[h.arrs[nodeList][i]]
             currentPath == Append(path, node.id)
             result == IF node.children # NoChildren
                       THEN findPath(h, node.children, path, nodeId)
                       ELSE NoPath
         IN IF node.id = nodeId THEN currentPath
            ELSE IF result # NoPath THEN result
            ELSE PathLoop(h, nodeList, i + 1, path, nodeId)

\* the loop `for (const node of nodeList)` from index i on
PathLoop(h, nodeList, i, path, nodeId) ==
    IF i > Len(h.arrs[nodeList])
    THEN NoPath
    ELSE LET node == h.objs[h.arrs[nodeList][i]]
             currentPath == Append(path, node.id)
             result == IF node.children # NoChildren
                       THEN findPath(h, node.children, currentPath, nodeId)
                       ELSE NoPath
         IN IF node.id = nodeId THEN currentPath
            ELSE IF result # NoPath THEN result
            ELSE PathLoop(h, nodeList, i + 1, path, nodeId)

findPath(h, nodeList, path, nodeId) == PathLoop(h, nodeList, 1, path, nodeId)

\* getNodePath(nodes, nodeId): findPath(nodes) || []
getNodePath(h, nodes, nodeId) ==
    LET r == findPath(h, nodes, <<>>, nodeId)
    IN IF r = NoPath THEN <<>> ELSE r

\* a caller looks an id up with both functions on the forest it holds
DoFind ==
    /\ \E nodeId \in ForestIds \cup {AbsentId} :
        look' = [id |-> nodeId,
                 found |-> findNodeById(Heap, root, nodeId),
                 path |-> getNodePath(Heap, root, nodeId)]
    /\ tpc' = "find"
    /\ UNCHANGED <<objs, arrs, root, collapsedItems, flat, call, ncalls>>

\* ====================================================== ReorderableList
\* The component owns a useUndoRedo hook (the cells and queues above) and
\* gets `value`, `onChange` and `resetTo` from its parent.  A list is the
\* sequence of its item ids.  After a render that changed a cell the two
\* effects run in order (their dependency `history` is a new object in every
\* render); a render that changes no cell is a bail-out and runs none.
\* `present` is compared by content; `past` and `future` are new arrays
\* whenever an update builds one.
MaxItems == 2

VARIABLES
    value,      \* the `value` prop, as the parent holds it
    onChange,   \* whether the parent passes an onChange that stores the list in `value`
    resetTo,    \* the `resetTo` prop: Undefined or Some(list)
    epc,        \* the effect to run next: "sync", "reset", or "none"
    last        \* the last toolbar / row handler that ran and the list it is to show

lvars == <<value, onChange, resetTo, epc, last>>

Items == 1..MaxItems

\* the lists of all items, in every order
Lists == {l \in [Items -> Items] : \A i, j \in Items : l[i] = l[j] => i = j}

NoAction == [op |-> "none", expect |-> Undefined]

\* arrayMove(array, from, to) of @dnd-kit/sortable: a copy with the item at
\* `from` taken out and put in at `to`
arrayMove(array, from, to) == SpliceIn(SpliceOut(array, from), to, array[from + 1])

\* whether applying the queue q to the cell builds a new array
RECURSIVE FreshPast(_, _)
FreshPast(p, q) ==
    IF q = <<>> THEN FALSE
    ELSE \/ Head(q).k \in {"app", "set"}
         \/ Head(q).k = "undo" /\ Len(p) > 0
         \/ FreshPast(ApplyPast(p, Head(q)), Tail(q))

RECURSIVE FreshFuture(_, _)
FreshFuture(f, q) ==
    IF q = <<>> THEN FALSE
    ELSE \/ Head(q).k \in {"pre", "set"}
         \/ Head(q).k = "redo" /\ Len(f) > 0
         \/ FreshFuture(ApplyFuture(f, Head(q)), Tail(q))

\* the render about to happen changes a cell of the hook
CellChanges ==
    LET r1 == RunPast(past, qPast)
        r2 == RunFuture(future, qFuture \o r1.toFuture)
        pq == qPresent \o r1.toPresent \o r2.toPresent
    IN \/ FreshPast(past, qPast) \/ FreshPast(r1.s, r2.toPast)
       \/ FreshFuture(future, qFuture \o r1.toFuture)
       \/ pq # <<>> /\ pq[Len(pq)] # present

\* the component re-renders; its effects run again when a cell changed
ListRender ==
    /\ epc = "none"
    /\ Render
    /\ epc' = IF CellChanges THEN "sync" ELSE "none"
    /\ UNCHANGED <<value, onChange, resetTo, last>>

\* useEffect(() => { history.sync(value) }, [history, value])
EffSync ==
    /\ epc = "sync"
    /\ sync(value)
    /\ epc' = "reset"
    /\ UNCHANGED <<value, onChange, resetTo, last>>

\* useEffect(() => { if (resetTo) history.reset(resetTo) }, [history, resetTo])
EffReset ==
    /\ epc = "reset"
    /\ IF resetTo # Undefined THEN reset(resetTo[1]) ELSE UNCHANGED hvars
    /\ epc' = "none"
    /\ UNCHANGED <<value, onChange, resetTo, last>>

\* nothing is left to run: no effect, no queued update
Settled == epc = "none" /\ calls = <<>>

\* commitNext(next): history.commit(next); onChange?.(next)
commitNext(next) ==
    /\ commit(next)
    /\ value' = IF onChange THEN next ELSE value

\* move(from, to), from a row's up / down button
move(from, to) ==
    /\ Settled
    /\ IF from = to \/ from < 0 \/ to < 0 \/ from >= Len(present) \/ to >= Len(present)
       THEN /\ last' = [op |-> "move", expect |-> Undefined]
            /\ UNCHANGED <<hvars, value>>
       ELSE /\ commitNext(arrayMove(present, from, to))
            /\ last' = [op |-> "move", expect |-> Some(arrayMove(present, from, to))]
    /\ UNCHANGED <<onChange, resetTo, epc>>

\* onUndo: const prev = history.undo(); if (prev) onChange?.(prev).
\* The Undo button is disabled while canUndo is false.
onUndo ==
    /\ Settled
    /\ canUndo
    /\ undo
    /\ LET ret == calls'[Len(calls')].ret
       IN value' = IF ret # Undefined /\ onChange THEN ret[1] ELSE value
    /\ last' = [op |-> "undo", expect |-> UndoResult(past)]
    /\ UNCHANGED <<onChange, resetTo, epc>>

\* onRedo: const next = history.redo(); if (next) onChange?.(next)
onRedo ==
    /\ Settled
    /\ canRedo
    /\ redo
    /\ LET ret == calls'[Len(calls')].ret
       IN value' = IF ret # Undefined /\ onChange THEN ret[1] ELSE value
    /\ last' = [op |-> "redo", expect |-> RedoResult(future)]
    /\ UNCHANGED <<onChange, resetTo, epc>>

\* onReset: const base = resetTo ?? value; const r = history.reset(base); onChange?.(r)
onReset ==
    /\ Settled
    /\ LET base == IF resetTo # Undefined THEN resetTo[1] ELSE value
       IN /\ reset(base)
          /\ value' = IF onChange THEN base ELSE value
          /\ last' = [op |-> "reset", expect |-> Some(base)]
    /\ UNCHANGED <<onChange, resetTo, epc>>

\* the component after its first render, the mount effects still to run
LInit ==
    /\ value \in Lists
    /\ onChange \in BOOLEAN
    /\ resetTo \in {Undefined} \cup {Some(l) : l \in Lists}
    /\ past = <<>> /\ future = <<>> /\ present = value
    /\ canUndo = CanUndoOf(<<>>) /\ canRedo = CanRedoOf(<<>>)
    /\ qPast = <<>> /\ qPresent = <<>> /\ qFuture = <<>>
    /\ calls = <<>> /\ prev = NoBatch
    /\ epc = "sync"
    /\ last = NoAction

\* the component's variables while it is not exercised
LIdle ==
    /\ value = <<>> /\ onChange = FALSE /\ resetTo = Undefined
    /\ epc = "none" /\ last = NoAction

\* ================================================== Tree / SortableTree
\* A node id is a number or a string (UniqueIdentifier).  The components
\* hand ids on as node.id.toString(); the utilities compare ids with ===
\* and Set.has, under which the number 5 and the string "5" differ.
IdKinds == {"number", "string"}
IdOf(kind, k) == [kind |-> kind, text |-> NodeId(k)]

\* id.toString(): the digits of a number, a string as it is
toString(id) == [kind |-> "string", text |-> id.text]

VARIABLES
    expandedNodes,  \* Tree: the useState set of expanded node ids (strings)
    view,           \* Tree: the TreeNodeComponents of the last render
    click           \* the last handler run from an item, and what it was run on

cvars == <<expandedNodes, view, click>>

NoClick == [op |-> "none", node |-> 0, id |-> 0, passed |-> 0, before |-> {}]

\* the forest F with ids of one kind, in the heap the caller holds
HoldsAs(F, kind) ==
    /\ objs = [k \in 1..F.n |->
                  [id |-> IdOf(kind, k),
                   children |-> IF k \in F.bare THEN NoChildren ELSE k]]
    /\ arrs = [a \in ((1..F.n) \ F.bare) \cup {F.n + 1} |->
                  IF a = F.n + 1 THEN ChildrenOf(F, 0) ELSE ChildrenOf(F, a)]
    /\ root = F.n + 1
    /\ collapsedItems = {}
    /\ flat = <<>>
    /\ tpc = "idle"
    /\ call = NoCall
    /\ ncalls = 0
    /\ look = NoLook

\* hasChildren = node.children && node.children.length > 0
hasChildren(n) == objs[n].children # NoChildren /\ Len(arrs[objs[n].children]) > 0

\* TreeNodeComponent({ node, depth, isExpanded }): the components rendered
\* for the node: itself and, when hasChildren && isExpanded, one per child,
\* each child given isExpanded={isExpanded}
RECURSIVE TreeNodeComponent(_, _, _)
TreeNodeComponent(n, depth, isExpanded) ==
    {[node |-> n, depth |-> depth, isExpanded |-> isExpanded]}
        \cup (IF hasChildren(n) /\ isExpanded
              THEN UNION {TreeNodeComponent(arrs[objs[n].children][i], depth + 1, isExpanded)
                          : i \in 1..Len(arrs[objs[n].children])}
              ELSE {})

\* Tree: data.map(node => <TreeNodeComponent isExpanded={expandedNodes.has(node.id.toString())} />)
Tree(expanded) ==
    UNION {TreeNodeComponent(arrs[root][i], 0, toString(objs[arrs[root][i]].id) \in expanded)
           : i \in 1..Len(arrs[root])}

\* setExpandedNodes(prev => ...): the set with nodeId toggled
Toggled(was, nodeId) == IF nodeId \in was THEN was \ {nodeId} ELSE was \cup {nodeId}

\* a click on a rendered node: handleToggle calls onToggleExpanded(node.id.toString())
\* when the node is collapsible, and Tree renders again
handleToggle ==
    /\ \E r \in view :
        /\ hasChildren(r.node)
        /\ expandedNodes' = Toggled(expandedNodes, toString(objs[r.node].id))
        /\ click' = [op |-> "toggle", node |-> r.node, id |-> objs[r.node].id,
                     passed |-> toString(objs[r.node].id), before |-> view]
    /\ view' = Tree(expandedNodes')

\* Tree after its first render
VInit ==
    /\ \E F \in Forests, kind \in IdKinds : HoldsAs(F, kind)
    /\ expandedNodes = {}
    /\ view = Tree({})
    /\ click = NoClick

\* ---------------------------------------------------------- SortableTree
\* SortableTree keeps `expandedNodes` and renders one SortableTreeItem per
\* entry of flattenTree(data, null, 0, expandedNodes); the parent owns `data`
\* and replaces it with what onDataChange is given.
SortRender ==
    /\ tpc # "rendered"
    /\ collapsedItems' = expandedNodes
    /\ flat' = flattenTree(root, NoParent, 0, expandedNodes)
    /\ tpc' = "rendered"
    /\ UNCHANGED <<objs, arrs, root, call, ncalls, look, expandedNodes, view, click>>

\* handleToggleExpanded(nodeId): setExpandedNodes(prev => prev with nodeId toggled)
handleToggleExpanded(nodeId) ==
    /\ expandedNodes' = Toggled(expandedNodes, nodeId)
    /\ tpc' = "toggle"
    /\ UNCHANGED <<objs, arrs, root, collapsedItems, flat, call, ncalls, look, view>>

\* handleRemove(nodeId): onDataChange(removeNodeById(data, nodeId))
handleRemove(nodeId) ==
    /\ ncalls < MaxCalls
    /\ LET r == removeNodeById(Heap, root, nodeId)
       IN /\ objs' = r.h.objs
          /\ arrs' = r.h.arrs
          /\ root' = r.nodes
          /\ call' = [op |-> "remove", id |-> nodeId, dir |-> "none",
                      threw |-> FALSE, moved |-> FALSE,
                      input |-> root, before |-> ValueOf(Heap, root)]
    /\ tpc' = "remove"
    /\ ncalls' = ncalls + 1
    /\ UNCHANGED <<collapsedItems, flat, look, expandedNodes, view>>

\* handleMove(nodeId, direction): onDataChange(moveNode(data, nodeId, direction));
\* when moveNode throws, the handler ends there and the parent keeps `data`
handleMove(nodeId, direction) ==
    /\ ncalls < MaxCalls
    /\ LET r == moveNode(Heap, root, nodeId, direction)
       IN /\ objs' = r.h.objs
          /\ arrs' = r.h.arrs
          /\ root' = IF r.threw THEN root ELSE r.nodes
          /\ call' = [op |-> "move", id |-> nodeId, dir |-> direction,
                      threw |-> r.threw, moved |-> r.moved,
                      input |-> root, before |-> ValueOf(Heap, root)]
    /\ tpc' = "move"
    /\ ncalls' = ncalls + 1
    /\ UNCHANGED <<collapsedItems, flat, look, expandedNodes, view>>

\* SortableTreeItem i of the last render: what a click on it was run on
Clicked(op, i) ==
    [op |-> op, node |-> i, id |-> flat[i].id, passed |-> toString(flat[i].id),
     before |-> flat]

\* SortableTreeItem.handleToggle: if (isCollapsible) onToggleExpanded(node.id.toString())
ItemToggle(i) ==
    /\ tpc = "rendered"
    /\ flat[i].children # NoChildren
    /\ Len(arrs[flat[i].children]) > 0
    /\ handleToggleExpanded(toString(flat[i].id))
    /\ click' = Clicked("toggle", i)

\* the remove button: onRemove?.(node.id.toString())
ItemRemove(i) ==
    /\ tpc = "rendered"
    /\ handleRemove(toString(flat[i].id))
    /\ click' = Clicked("remove", i)

\* a move button: onMove?.(node.id.toString(), direction)
ItemMove(i, direction) ==
    /\ tpc = "rendered"
    /\ handleMove(toString(flat[i].id), direction)
    /\ click' = Clicked("move", i)

\* SortableTree before its first render
SInit ==
    /\ \E F \in ForestsUpTo(MaxMoveNodes), kind \in IdKinds : HoldsAs(F, kind)
    /\ expandedNodes = {}
    /\ view = {}
    /\ click = NoClick

CIdle == expandedNodes = {} /\ view = {} /\ click = NoClick

\* the tree variables while only the history hook is exercised, and back
TIdle ==
    /\ objs = <<>> /\ arrs = [a \in {1} |-> <<>>] /\ root = 1
    /\ collapsedItems = {} /\ flat = <<>> /\ tpc = "idle"
    /\ call = NoCall /\ ncalls = 0 /\ look = NoLook

HIdle ==
    /\ past = <<>> /\ future = <<>> /\ present = 1
    /\ canUndo = FALSE /\ canRedo = FALSE
    /\ qPast = <<>> /\ qPresent = <<>> /\ qFuture = <<>>
    /\ calls = <<>> /\ prev = NoBatch

vars == <<hvars, tvars, lvars, cvars>>

\* ------------------------------------------------------- specifications
\* the history hook on its own
Init == HInit /\ TIdle /\ LIdle /\ CIdle
Next ==
    \/ \E v \in Vals : commit(v) /\ UNCHANGED <<tvars, lvars, cvars>>
    \/ \E v \in Vals : sync(v) /\ UNCHANGED <<tvars, lvars, cvars>>
    \/ \E v \in Vals : reset(v) /\ UNCHANGED <<tvars, lvars, cvars>>
    \/ undo /\ UNCHANGED <<tvars, lvars, cvars>>
    \/ redo /\ UNCHANGED <<tvars, lvars, cvars>>
    \/ Render /\ UNCHANGED <<tvars, lvars, cvars>>
Spec == Init /\ [][Next]_vars

\* the tree utilities on their own
TreeInit == TInit /\ HIdle /\ LIdle /\ CIdle
TreeNext ==
    \/ DoFlatten /\ UNCHANGED <<hvars, lvars, cvars>>
TreeSpec == TreeInit /\ [][TreeNext]_vars

\* removeNodeById and moveNode, called on the forest the caller holds
MoveInit == MInit /\ HIdle /\ LIdle /\ CIdle
MoveNext ==
    \/ DoMove /\ UNCHANGED <<hvars, lvars, cvars>>
    \/ DoRemove /\ UNCHANGED <<hvars, lvars, cvars>>
MoveSpec == MoveInit /\ [][MoveNext]_vars

\* findNodeById and getNodePath, called on a forest
FindInit == TInit /\ HIdle /\ LIdle /\ CIdle
FindNext ==
    \/ DoFind /\ UNCHANGED <<hvars, lvars, cvars>>
FindSpec == FindInit /\ [][FindNext]_vars

\* the ReorderableList component with its own history hook
ListInit == LInit /\ TIdle /\ CIdle
ListNext ==
    \/ ListRender /\ UNCHANGED <<tvars, cvars>>
    \/ EffSync /\ UNCHANGED <<tvars, cvars>>
    \/ EffReset /\ UNCHANGED <<tvars, cvars>>
    \/ \E from \in 0..(MaxItems - 1), to \in -1..MaxItems : move(from, to) /\ UNCHANGED <<tvars, cvars>>
    \/ onUndo /\ UNCHANGED <<tvars, cvars>>
    \/ onRedo /\ UNCHANGED <<tvars, cvars>>
    \/ onReset /\ UNCHANGED <<tvars, cvars>>
ListSpec == ListInit /\ [][ListNext]_vars

\* the Tree component over a forest
ViewInit == VInit /\ HIdle /\ LIdle
ViewNext ==
    \/ handleToggle /\ UNCHANGED <<hvars, tvars, lvars>>
ViewSpec == ViewInit /\ [][ViewNext]_vars

\* the SortableTree component over a forest its parent holds
SortInit == SInit /\ HIdle /\ LIdle
SortNext ==
    \/ SortRender /\ UNCHANGED <<hvars, lvars>>
    \/ \E i \in 1..Len(flat) : ItemToggle(i) /\ UNCHANGED <<hvars, lvars>>
    \/ \E i \in 1..Len(flat) : ItemRemove(i) /\ UNCHANGED <<hvars, lvars>>
    \/ \E i \in 1..Len(flat), direction \in Directions :
          ItemMove(i, direction) /\ UNCHANGED <<hvars, lvars>>
SortSpec == SortInit /\ [][SortNext]_vars

\* React runs a scheduled render and the pending effects; the user need not act
ListLive ==
    /\ ListSpec
    /\ WF_vars(ListRender /\ UNCHANGED <<tvars, cvars>>)
    /\ WF_vars(EffSync /\ UNCHANGED <<tvars, cvars>>)
    /\ WF_vars(EffReset /\ UNCHANGED <<tvars, cvars>>)

\* ------------------------------------------------------- history claims
\* the last render applied a batch that was the single call `o`, and no
\* call has been made since
JustRendered(o) == calls = <<>> /\ prev.calls # <<>> /\ prev.calls[1].op = o

\* the first call since the last render is `o`, and that render applied the
\* single call `before`
CalledAfter(o, before) ==
    /\ prev.calls # <<>> /\ prev.calls[1].op = before
    /\ calls # <<>> /\ calls[1].op = o

\* C1: commit(next) from any cells yields past' = past with the old present
\* appended, present' = next and future' = empty; so a redo() issued right
\* after a commit returns the no-op signal, also when a redo was available
\* before the commit.
C1_CommitEffect ==
    /\ JustRendered("commit") =>
          /\ past = Append(prev.pre.past, prev.pre.present)
          /\ present = prev.calls[1].arg[1]
          /\ future = <<>>
          /\ ~canRedo
    /\ CalledAfter("redo", "commit") => calls[1].ret = Undefined

C1_Witness ==
    /\ CalledAfter("redo", "commit")
    /\ prev.pre.future # <<>>
    /\ prev.calls[1].arg[1] # prev.pre.present

\* C2: when past is non-empty, undo() moves the last entry of past into
\* present, pushes the old present onto the front of future, and returns the
\* new present.
C2_UndoMovesAndReturns ==
    (JustRendered("undo") /\ prev.pre.past # <<>>) =>
        /\ past = Front(prev.pre.past)
        /\ present = prev.pre.past[Len(prev.pre.past)]
        /\ future = <<prev.pre.present>> \o prev.pre.future
        /\ prev.calls[1].ret = Some(present)

\* C3: when future is non-empty, redo() moves the first entry of future into
\* present, pushes the old present onto the end of past, and returns the new
\* present.
C3_RedoMovesAndReturns ==
    (JustRendered("redo") /\ prev.pre.future # <<>>) =>
        /\ future = Rest(prev.pre.future)
        /\ present = prev.pre.future[1]
        /\ past = Append(prev.pre.past, prev.pre.present)
        /\ prev.calls[1].ret = Some(present)

\* C4: undo() with empty past and redo() with empty future return the no-op
\* signal and leave past, present and future unchanged.
C4_EmptyIsNoOp ==
    /\ (JustRendered("undo") /\ prev.pre.past = <<>>) =>
          prev.calls[1].ret = Undefined /\ Cells = prev.pre
    /\ (JustRendered("redo") /\ prev.pre.future = <<>>) =>
          prev.calls[1].ret = Undefined /\ Cells = prev.pre

C4_Witness ==
    /\ JustRendered("undo")
    /\ prev.pre.past = <<>>
    /\ prev.pre.future # <<>>

\* C5: from cells with non-empty past, undo() followed by redo() restores
\* present, past and future to what they were before the undo.
C5_UndoRedoIdentity ==
    (JustRendered("redo") /\ prev.from # NoCells /\ prev.from.past # <<>>) =>
        Cells = prev.from

C5_Witness ==
    /\ JustRendered("redo")
    /\ prev.from # NoCells
    /\ prev.from.past # <<>>
    /\ prev.from.future # <<>>
    /\ prev.pre.present # prev.from.present

\* C6: sync(next) sets present = next and leaves past and future unchanged.
C6_SyncFrame ==
    JustRendered("sync") =>
        /\ present = prev.calls[1].arg[1]
        /\ past = prev.pre.past
        /\ future = prev.pre.future

C6_Witness ==
    /\ JustRendered("sync")
    /\ past # <<>> /\ future # <<>>
    /\ present # prev.pre.present

\* C7: reset(value) from any cells yields past = empty, future = empty,
\* present = value, and returns value.
C7_ResetEffect ==
    /\ JustRendered("reset") =>
          /\ past = <<>> /\ future = <<>>
          /\ present = prev.calls[1].arg[1]
          /\ prev.calls[1].ret = Some(prev.calls[1].arg[1])
    /\ \A i \in 1..Len(calls) : calls[i].op = "reset" => calls[i].ret = Some(calls[i].arg[1])

C7_Witness ==
    /\ JustRendered("reset")
    /\ past = <<>> /\ future = <<>>

\* C8: canUndo is true exactly when past is non-empty and canRedo exactly
\* when future is non-empty, in every reachable state.
C8_FlagsDerived ==
    /\ canUndo <=> (past # <<>>)
    /\ canRedo <=> (future # <<>>)

C8_Witness == canUndo /\ canRedo /\ past # <<>> /\ future # <<>>

\* C9: each commit is one history entry: commit(v1) then commit(v2) from
\* present p0, also when both go through the same commit closure (no render
\* in between), leaves past ending with [p0, v1] and present = v2.
C9_EachCommitOneEntry ==
    [][\A v1, v2 \in Vals :
         (/\ calls = <<Call("commit", <<v1>>, Undefined), Call("commit", <<v2>>, Undefined)>>
          /\ calls' = <<>>)
         => (past' = past \o <<present, v1>> /\ present' = v2)]_vars

\* ---------------------------------------------------------- tree claims
\* where a node sits, read off the heap: the array that holds it, the node
\* that owns that array, its position, its ancestors, its index path
ForestArrays == {root} \cup {objs[n].children : n \in {m \in ForestNodes : objs[m].children # NoChildren}}
HolderOf(n) == CHOOSE a \in ForestArrays : \E i \in 1..Len(arrs[a]) : arrs[a][i] = n
OwnerOf(a) == CHOOSE n \in ForestNodes : objs[n].children = a
PosIn(a, n) == CHOOSE i \in 1..Len(arrs[a]) : arrs[a][i] = n
NodeOfId(id) == CHOOSE n \in ForestNodes : objs[n].id = id

RECURSIVE ProperAncestors(_)
ProperAncestors(n) ==
    IF HolderOf(n) = root THEN {}
    ELSE {OwnerOf(HolderOf(n))} \cup ProperAncestors(OwnerOf(HolderOf(n)))

RECURSIVE PathOf(_)
PathOf(n) ==
    IF HolderOf(n) = root THEN <<PosIn(root, n)>>
    ELSE Append(PathOf(OwnerOf(HolderOf(n))), PosIn(HolderOf(n), n))

\* depth-first pre-order on index paths: an ancestor comes before its
\* descendants, an earlier sibling's subtree before a later sibling's
PreBefore(p, q) ==
    \E k \in 0..Len(p) :
        /\ k <= Len(q)
        /\ \A i \in 1..k : p[i] = q[i]
        /\ \/ k = Len(p) /\ Len(q) > k
           \/ k < Len(p) /\ k < Len(q) /\ p[k + 1] < q[k + 1]

\* the nodes with no proper ancestor whose id is in c
Shown(c) == {n \in ForestNodes : \A a \in ProperAncestors(n) : objs[a].id \notin c}

\* C10: flatten(F, C) is exactly the depth-first pre-order sequence of the
\* nodes of F that have no proper ancestor whose id is in C (a collapsed node
\* is itself emitted); its length is the number of such nodes, and the empty
\* forest yields the empty sequence.
C10_FlattenPreOrder ==
    tpc = "flatten" =>
        /\ Len(flat) = Cardinality(Shown(collapsedItems))
        /\ {flat[i].id : i \in 1..Len(flat)} = {objs[n].id : n \in Shown(collapsedItems)}
        /\ \A i, j \in 1..Len(flat) :
              i < j => PreBefore(PathOf(NodeOfId(flat[i].id)), PathOf(NodeOfId(flat[j].id)))
        /\ ForestNodes = {} => flat = <<>>

C10_Witness ==
    /\ tpc = "flatten"
    /\ \E i \in 1..Len(flat) :
          /\ flat[i].collapsed
          /\ flat[i].children # NoChildren
          /\ Len(arrs[flat[i].children]) > 0
    /\ \E i \in 1..Len(flat) : flat[i].depth > 0
    /\ Len(flat) < Cardinality(ForestNodes)

\* C11: every node emitted by flatten(F, C) carries depth 0 and parentId none
\* when it is top-level, else its parent's depth + 1 and its direct parent's
\* id; index is its position among its siblings; collapsed is (id in C).
C11_FlattenFields ==
    tpc = "flatten" =>
        \A i \in 1..Len(flat) :
            LET n == NodeOfId(flat[i].id)
                top == HolderOf(n) = root
            IN /\ flat[i].depth = Len(PathOf(n)) - 1
               /\ flat[i].parentId = (IF top THEN NoParent ELSE objs[OwnerOf(HolderOf(n))].id)
               /\ flat[i].index = PosIn(HolderOf(n), n) - 1
               /\ flat[i].collapsed = (flat[i].id \in collapsedItems)
               /\ ~top => \E j \in 1..(i - 1) :
                              /\ flat[j].id = flat[i].parentId
                              /\ flat[i].depth = flat[j].depth + 1

C11_Witness ==
    /\ tpc = "flatten"
    /\ \E i, j \in 1..Len(flat) :
          /\ flat[i].depth = 2 /\ flat[i].collapsed
          /\ flat[j].depth = 0 /\ flat[j].index = 1 /\ ~flat[j].collapsed

\* ------------------------------------------------- move / remove claims
\* A forest as a value (ValueOf) is a sequence of [id, has, kids].  What the
\* operations are expected to return is stated on such values.
RECURSIVE VCount(_)
VCount(v) == IF v = <<>> THEN 0 ELSE 1 + VCount(v[1].kids) + VCount(SubSeq(v, 2, Len(v)))

RECURSIVE VIds(_)
VIds(v) == UNION {{v[j].id} \cup VIds(v[j].kids) : j \in 1..Len(v)}

\* position of the node among its siblings (from 1), and how many they are
RECURSIVE VPos(_, _)
VPos(v, id) ==
    IF \E j \in 1..Len(v) : v[j].id = id
    THEN CHOOSE j \in 1..Len(v) : v[j].id = id
    ELSE MaxOf({VPos(v[j].kids, id) : j \in 1..Len(v)})

RECURSIVE VSibs(_, _)
VSibs(v, id) ==
    IF \E j \in 1..Len(v) : v[j].id = id
    THEN Len(v)
    ELSE MaxOf({VSibs(v[j].kids, id) : j \in {k \in 1..Len(v) : id \in VIds(v[k].kids)}})

\* the ids of the node's parents: {p} at the level whose owner is p
RECURSIVE VParents(_, _, _)
VParents(v, id, p) ==
    (IF \E j \in 1..Len(v) : v[j].id = id THEN {p} ELSE {})
        \cup UNION {VParents(v[j].kids, id, v[j].id) : j \in 1..Len(v)}

VNested(v, id) == id \in VIds(v) /\ VParents(v, id, NoParent) # {NoParent}

VSwap(v, j) == [k \in 1..Len(v) |-> IF k = j THEN v[j + 1] ELSE IF k = j + 1 THEN v[j] ELSE v[k]]

\* the forest v after the move described for `dir`; v itself when the move
\* does not apply
RECURSIVE VMove(_, _, _)
VMove(v, id, dir) ==
    LET here == {j \in 1..Len(v) : v[j].id = id}
        par == {j \in 1..Len(v) : \E k \in 1..Len(v[j].kids) : v[j].kids[k].id = id}
    IN IF here # {}
       THEN LET j == CHOOSE x \in here : TRUE
            IN CASE dir = "up" -> IF j > 1 THEN VSwap(v, j - 1) ELSE v
                 [] dir = "down" -> IF j < Len(v) THEN VSwap(v, j) ELSE v
                 [] dir = "indent" ->
                      IF j > 1
                      THEN SubSeq(v, 1, j - 2)
                             \o <<[v[j - 1] EXCEPT !.has = TRUE, !.kids = Append(@, v[j])]>>
                             \o SubSeq(v, j + 1, Len(v))
                      ELSE v
                 [] OTHER -> v
       ELSE IF dir = "outdent" /\ par # {}
       THEN LET j == CHOOSE x \in par : TRUE
                k == CHOOSE x \in 1..Len(v[j].kids) : v[j].kids[x].id = id
            IN SubSeq(v, 1, j - 1)
                 \o <<[v[j] EXCEPT !.kids = SpliceOut(@, k - 1)], v[j].kids[k]>>
                 \o SubSeq(v, j + 1, Len(v))
       ELSE [j \in 1..Len(v) |-> [v[j] EXCEPT !.kids = VMove(@, id, dir)]]

\* the forest the caller holds after the call, and the input forest now
After == ValueOf(Heap, root)
InputNow == ValueOf(Heap, call.input)

\* C12: moveNode(F, id, direction) completes and returns a forest without
\* raising, for every forest, every id at any depth and every direction,
\* both when the precondition fails and when the move succeeds on a nested
\* node.
C12_MoveNeverRaises == call.op = "move" => ~call.threw

\* C13: after moveNode(F, id, direction) or removeNodeById(F, id) returns,
\* the input forest F is structurally what it was before the call.
C13_InputUntouched ==
    (call.op \in {"move", "remove"} /\ ~call.threw) => InputNow = call.before

\* the call was moveNode(F, id, dir) with id in F
Moved(dir) == call.op = "move" /\ call.dir = dir /\ call.id \in VIds(call.before)

\* C14: moveNode(F, id, 'outdent') on a node nested under parent P removes
\* the node from P's children and inserts it immediately after P in P's own
\* sibling list, changing nothing else.
C14_OutdentNested ==
    (Moved("outdent") /\ VNested(call.before, call.id)) =>
        /\ ~call.threw
        /\ After = VMove(call.before, call.id, "outdent")

\* C15: moveNode(F, id, 'indent') on a node that is not first among its
\* siblings, at any depth, removes it from its sibling list and appends it
\* as the last child of its previous sibling, creating that sibling's
\* children list if absent; the returned forest differs in nothing else.
C15_IndentNotFirst ==
    (Moved("indent") /\ VPos(call.before, call.id) > 1) =>
        /\ ~call.threw
        /\ After = VMove(call.before, call.id, "indent")

\* C16: moveNode(F, id, 'up') on a node that is not first among its siblings,
\* at any depth, returns F with the node and its previous sibling exchanged;
\* 'down' on a node that is not last exchanges it with its next sibling;
\* every other sibling list is unchanged.
C16_UpDownSwap ==
    /\ (Moved("up") /\ VPos(call.before, call.id) > 1) =>
          ~call.threw /\ After = VMove(call.before, call.id, "up")
    /\ (Moved("down") /\ VPos(call.before, call.id) < VSibs(call.before, call.id)) =>
          ~call.threw /\ After = VMove(call.before, call.id, "down")

\* moveNode(G, id, dir) on the forest G the caller holds after the call
ThenMove(dir) == moveNode(Heap, root, call.id, dir)

\* C17: for a node that is not first among its siblings, at any depth,
\* moveNode(moveNode(F, id, 'up'), id, 'down') has the same sibling order as
\* F everywhere.
C17_UpDownRoundTrip ==
    (Moved("up") /\ VPos(call.before, call.id) > 1) =>
        /\ ~call.threw
        /\ ~ThenMove("down").threw
        /\ ValueOf(ThenMove("down").h, ThenMove("down").nodes) = call.before

\* C18: when indent is not a no-op,
\* moveNode(moveNode(F, id, 'indent'), id, 'outdent') restores the node's
\* original parent.
C18_IndentOutdentRoundTrip ==
    (Moved("indent") /\ VPos(call.before, call.id) > 1) =>
        /\ ~call.threw
        /\ ~ThenMove("outdent").threw
        /\ VParents(ValueOf(ThenMove("outdent").h, ThenMove("outdent").nodes), call.id, NoParent)
              = VParents(call.before, call.id, NoParent)

\* the node with this id in v, as a one-node forest with its subtree
RECURSIVE VSub(_, _)
VSub(v, id) ==
    IF \E j \in 1..Len(v) : v[j].id = id
    THEN <<v[CHOOSE j \in 1..Len(v) : v[j].id = id]>>
    ELSE VSub(v[CHOOSE j \in 1..Len(v) : id \in VIds(v[j].kids)].kids, id)

\* no two nodes of v carry the same id
UniqueIds(v) == VCount(v) = Cardinality(VIds(v))

\* the call was removeNodeById(F, id) with id in F, F with unique ids
Removed == call.op = "remove" /\ call.id \in VIds(call.before) /\ UniqueIds(call.before)

\* C19 as stated: for every id present in F (leaf or inner node),
\* removeNodeById(F, id) yields a forest in which findNodeById is not-found
\* and whose total node count is exactly one less than F's.
C19_RemoveOneLess ==
    Removed =>
        /\ findNodeById(Heap, root, call.id) = NotFound
        /\ VCount(After) = VCount(call.before) - 1

\* C19, amended: removeNodeById(F, id) yields a forest in which findNodeById
\* is not-found and from which the node and all its descendants are gone:
\* the node count is F's less the size of the removed node's subtree, which
\* is one less exactly when the node has no descendants.
C19_RemoveSubtree ==
    Removed =>
        /\ findNodeById(Heap, root, call.id) = NotFound
        /\ VIds(After) = VIds(call.before) \ VIds(VSub(call.before, call.id))
        /\ VCount(After) = VCount(call.before) - VCount(VSub(call.before, call.id))
        /\ (VCount(After) = VCount(call.before) - 1) <=> (VSub(call.before, call.id)[1].kids = <<>>)

C19_Witness ==
    /\ Removed
    /\ VNested(call.before, call.id)
    /\ VCount(VSub(call.before, call.id)) = 2
    /\ VCount(After) = VCount(call.before) - 2

\* the precondition of the move asked for fails on the input forest
MoveDoesNotApply ==
    \/ call.id \notin VIds(call.before)
    \/ call.dir = "up" /\ VPos(call.before, call.id) = 1
    \/ call.dir = "down" /\ VPos(call.before, call.id) = VSibs(call.before, call.id)
    \/ call.dir = "indent" /\ VPos(call.before, call.id) = 1
    \/ call.dir = "outdent" /\ ~VNested(call.before, call.id)

\* C20: operations whose precondition fails return a forest structurally
\* equal to the input: removeNodeById and moveNode (any direction) with an id
\* not in F, 'up' on a first sibling, 'down' on a last sibling, 'indent' on a
\* first sibling, and 'outdent' on a top-level node.
C20_NoOpKeepsForest ==
    UniqueIds(call.before) =>
        /\ (call.op = "remove" /\ call.id \notin VIds(call.before)) => After = call.before
        /\ (call.op = "move" /\ MoveDoesNotApply) => (~call.threw /\ After = call.before)

C20_Witness ==
    /\ call.op = "move" /\ call.dir = "down" /\ ~call.threw
    /\ VNested(call.before, call.id)
    /\ VSibs(call.before, call.id) = 2 /\ VPos(call.before, call.id) = 2
    /\ After = call.before

\* C21: starting from a forest in which every id occurs exactly once, after
\* any sequence of moveNode and removeNodeById calls the forest the caller
\* holds is still one in which every id occurs exactly once, and each
\* moveNode call preserves the set of node ids.
C21_UniqueIdsKept ==
    (call.op \in {"move", "remove"} /\ UniqueIds(call.before)) =>
        /\ UniqueIds(After)
        /\ call.op = "move" => VIds(After) = VIds(call.before)

\* C22: findNodeById(F, id) returns a node exactly when getNodePath(F, id) is
\* non-empty; the node's id is id and is the last element of the path, which
\* starts at a top-level node and in which each id is the parent of the next.
C22_FindAgreesWithPath ==
    tpc = "find" =>
        /\ (look.found # NotFound) <=> (look.path # <<>>)
        /\ look.found # NotFound =>
              /\ objs[look.found].id = look.id
              /\ look.path[Len(look.path)] = look.id
              /\ HolderOf(NodeOfId(look.path[1])) = root
              /\ \A k \in 1..(Len(look.path) - 1) :
                    LET child == NodeOfId(look.path[k + 1])
                    IN /\ HolderOf(child) # root
                       /\ look.path[k] = objs[OwnerOf(HolderOf(child))].id

C22_Witness ==
    /\ tpc = "find"
    /\ look.found # NotFound
    /\ Len(look.path) = 3
    /\ PosIn(HolderOf(look.found), look.found) = 2

\* the node objects and the arrays of the input forest of the last call, and
\* the arrays of the forest under array a
InputNodes == NodesUnder(call.input)
ArraysFrom(a) == {a} \cup {objs[n].children : n \in {m \in NodesUnder(a) : objs[m].children # NoChildren}}

\* the ids of the proper ancestors of the removed node in the input
AncestorIds ==
    LET path == getNodePath(Heap, call.input, call.id)
    IN {path[k] : k \in 1..(Len(path) - 1)}

\* C23 as stated: removeNodeById(F, id) copies only the ancestors on the path
\* to the removed node; every kept node that is not an ancestor of the
\* removed node is the same object in the result as in F.
C23_OnlyPathCopied ==
    Removed =>
        \A n \in InputNodes :
            (objs[n].id \in VIds(After) /\ objs[n].id \notin AncestorIds) => n \in ForestNodes

\* C23, amended: removeNodeById(F, id) copies every node it keeps, ancestor
\* of the removed node or not: no node object and no sibling array of the
\* result is one of F's, each kept node's copy carries the same id, and F
\* itself is left as it was.
C23_EveryKeptNodeCopied ==
    call.op = "remove" =>
        /\ ForestNodes \cap InputNodes = {}
        /\ ArraysFrom(root) \cap ArraysFrom(call.input) = {}
        /\ VIds(After) \subseteq VIds(call.before)
        /\ InputNow = call.before

C23_Witness ==
    /\ Removed
    /\ \E n \in InputNodes :
          /\ objs[n].id \in VIds(After)
          /\ objs[n].id \notin AncestorIds
          /\ objs[n].children # NoChildren
    /\ AncestorIds # {}

\* the caller holds a forest with unique ids that removeNodeById or moveNode
\* returned
HoldsReturned == call.op \in {"remove", "move"} /\ ~call.threw /\ UniqueIds(After)

NestedIds == {id \in VIds(After) : VNested(After, id)}

\* moveNode(G, id, 'outdent') on the held forest G returns G unchanged
OutdentIsSilentNoOp(id) ==
    LET r == moveNode(Heap, root, id, "outdent")
    IN ~r.threw /\ ~r.moved /\ ValueOf(r.h, r.nodes) = After

\* C26 as stated: there is a forest F produced by removeNodeById (or by a
\* previous moveNode) and a nested node id in it for which
\* moveNode(F, id, 'outdent') fails to find the node's parent by
\* children-array identity and returns with no structural change.  Stated of
\* the forests such calls return: one with a nested node has such an id.
C26_OutdentLosesParent ==
    (HoldsReturned /\ NestedIds # {}) => \E id \in NestedIds : OutdentIsSilentNoOp(id)

\* C26, amended: for every forest F produced by removeNodeById or by a
\* previous moveNode and every nested node id in it, the lookup of the
\* parent by children-array identity succeeds: moveNode(F, id, 'outdent')
\* never returns F unchanged; it splices the node into the list that holds
\* its parent and then raises in the ancestor rebuild.
C26_OutdentFindsParent ==
    HoldsReturned =>
        \A id \in NestedIds :
            LET r == moveNode(Heap, root, id, "outdent")
            IN /\ ~OutdentIsSilentNoOp(id)
               /\ r.threw
               /\ VCount(ValueOf(r.h, root)) = VCount(After) + VCount(VSub(After, id))

C26_Witness ==
    /\ call.op = "remove" /\ call.id \in VIds(call.before)
    /\ HoldsReturned
    /\ NestedIds # {}

\* the timeline of the hook: past, then present, then future
Timeline == past \o <<present>> \o future

\* C27: undo and redo only move a cursor along a fixed timeline: the
\* concatenation past ++ [present] ++ future is the same before and after
\* every undo() and redo(), in any interleaving of the two.
C27_TimelineFixed ==
    [][(/\ calls # <<>>
        /\ \A i \in 1..Len(calls) : calls[i].op \in {"undo", "redo"}
        /\ calls' = <<>>)
       => Timeline' = Timeline]_vars

\* ------------------------------------------------ ReorderableList claims
\* C24: ReorderableList works uncontrolled: when the parent supplies no
\* onChange, after a successful move(from, to) the list the component
\* displays (history.value) equals arrayMove(items, from, to) once rendering
\* settles, and stays so until the next user action.
C24_UncontrolledMoveShows ==
    (Settled /\ ~onChange /\ last.op = "move" /\ last.expect # Undefined) =>
        present = last.expect[1]

\* C25: whenever the Undo (resp. Redo) toolbar handler runs while past
\* (resp. future) is non-empty, onChange is called with the restored value,
\* so that after the update settles the history's present and the
\* externally held value are both equal to that restored value.
C25_UndoRedoReachesParent ==
    (Settled /\ onChange /\ last.op \in {"undo", "redo"} /\ last.expect # Undefined) =>
        /\ present = last.expect[1]
        /\ value = last.expect[1]

\* C28: with a resetTo prop provided and no user interaction, the
\* render/effect cycle terminates: after finitely many renders no further
\* state update is scheduled.
C28_ResetEffectSettles == (resetTo # Undefined) => <>Settled

\* ------------------------------------------------------------ Tree claims
ShownNodes == {r.node : r \in view}
ChildNodes(n) == {arrs[objs[n].children][i] : i \in 1..Len(arrs[objs[n].children])}

\* C29: in the Tree component, for every node at any depth, the node's
\* children are shown exactly when the node is itself shown and the node's
\* own id is in expandedNodes; toggling a nested node changes the visibility
\* of that node's children only.
C29_ChildrenShownIffExpanded ==
    /\ \A n \in {m \in ForestNodes : hasChildren(m)} :
          (ChildNodes(n) \subseteq ShownNodes)
              <=> (n \in ShownNodes /\ toString(objs[n].id) \in expandedNodes)
    /\ click.op = "toggle" =>
          LET was == {r.node : r \in click.before}
              changed == (ShownNodes \ was) \cup (was \ ShownNodes)
          IN /\ ChildNodes(click.node) \subseteq changed
             /\ changed \subseteq NodesUnder(objs[click.node].children)

\* C30: in SortableTree, for number ids as for string ids, the id a handler
\* passes on is the id of the item it was triggered on: a removed item's id
\* is gone from the forest, and a toggled item is shown with its collapsed
\* flag flipped on the next render.
C30_HandlersActOnTheirNode ==
    /\ click.op # "none" => click.passed = click.id
    /\ click.op = "remove" => ~(click.id \in VIds(After))
    /\ (click.op = "toggle" /\ tpc = "rendered") =>
          \E j \in 1..Len(flat) :
              /\ flat[j].id = click.id
              /\ flat[j].collapsed # click.before[click.node].collapsed

====
